---------------------------- MODULE Spec2Model ----------------------------
(***************************************************************************)
(* Foodgram backend (Django / Django REST framework): the relational       *)
(* tables of recipes/models.py as state, one action per request handler    *)
(* of recipes/views.py, the permission class of recipes/permissions.py    *)
(* and the write serialiser of recipes/serializers.py.                     *)
(*                                                                         *)
(* A table with a unique_together constraint is a function from the        *)
(* constrained key to the number of rows (or the rows) stored under it,    *)
(* so that "at most one row per key" is a property of the handlers and of  *)
(* the constraint, not of the representation.                              *)
(***************************************************************************)
EXTENDS Integers, Sequences, FiniteSets, TLC

(***************************************************************************)
(* Bounds of the model.                                                    *)
(***************************************************************************)
NumUsers == 2
NumRecipes == 2
NumIngredients == 2
NumTags == 2
MaxAmount == 1
MaxInflight == 2
MaxRequests == 3

(***************************************************************************)
(* Identifiers.  The largest id of each kind names no row, so that         *)
(* "missing object" requests can be made.                                  *)
(***************************************************************************)
AnonymousUser == 0
None == -1

UserIds == 1..(NumUsers + 1)
RecipeIds == 1..(NumRecipes + 1)
IngredientIds == 1..(NumIngredients + 1)
TagIds == 1..(NumTags + 1)

Requesters == {AnonymousUser} \cup (1..NumUsers)
Names == {"old", "new"}

VARIABLES
    users,              \* ids of the rows of users.User
    recipes,            \* Recipe rows: id -> [author, name]
    recipe_tags,        \* Recipe.tags: recipe id -> set of tag ids
    recipe_ingredients, \* RecipeIngredient rows: <<recipe, ingredient>> -> sequence of amounts
    favorites,          \* Favorite rows: <<user, recipe>> -> number of rows
    shopping_cart,      \* ShoppingCart rows: <<user, recipe>> -> number of rows
    subscriptions,      \* Subscription rows: <<user, author>> -> number of rows
    response,           \* the request served last and its response
    last_cart,          \* history: <<user, recipe>> -> the last cart request answered 201 or 204
    prev_favorites,     \* history: the Favorite rows before the last favourites request
    inflight,           \* add requests between their existence check and their insert
    served,             \* number of requests taken up so far
    accounts,           \* users.User rows: id -> [email, username]
    request             \* history: the parameters of the last list or registration request

vars == <<users, recipes, recipe_tags, recipe_ingredients, favorites,
          shopping_cart, subscriptions, response, last_cart, prev_favorites,
          inflight, served, accounts, request>>

(***************************************************************************)
(* Ingredient and Tag rows are read-only through the API.                  *)
(***************************************************************************)
Ingredients == 1..NumIngredients
Tags == 1..NumTags

\* Ingredient.name: ids and names are ordered differently, and from three
\* ingredients on two rows share a name (with different units).
IngredientName(i) == (NumIngredients - i + 1) \div 2
IngredientUnit(i) == i

(***************************************************************************)
(* The ORM.                                                                *)
(***************************************************************************)
RECURSIVE SumSeq(_)
SumSeq(s) == IF s = <<>> THEN 0 ELSE Head(s) + SumSeq(Tail(s))

RECURSIVE SumOver(_, _)
\* sum of the sequences f[k] over the keys k of S
SumOver(f, S) ==
    IF S = {} THEN 0
    ELSE LET k == CHOOSE x \in S : TRUE
         IN  SumSeq(f[k]) + SumOver(f, S \ {k})

\* the constraint left out of the schema
UniqueTogether_off(table, key) == TRUE

\* Meta.unique_together: the constraint admits one more row under `key`
UniqueTogether(table, key) == table[key] = 0

\* .filter(user=user).exists(): the second field of the key left out
Exists_of_user(table, key) ==
    \E k \in DOMAIN table : k[1] = key[1] /\ table[k] > 0

\* the existence check left out
Exists_never(table, key) == FALSE

\* Model.objects.filter(<key>).exists()
Exists(table, key) == table[key] > 0

\* Model.objects.create(<key>), once the constraint admitted it
Create(table, key) == [table EXCEPT ![key] = @ + 1]

\* the filter matches the pair in either direction
Delete_either(table, key) ==
    [table EXCEPT ![key] = 0, ![<<key[2], key[1]>>] = 0]

\* .filter(user=user).delete(): the second field of the key left out
Delete_of_user(table, key) ==
    [k \in DOMAIN table |-> IF k[1] = key[1] THEN 0 ELSE table[k]]

\* Model.objects.filter(<key>).delete(): the table afterwards; the number
\* of rows deleted is table[key]
Delete(table, key) == [table EXCEPT ![key] = 0]

\* on_delete=CASCADE of the join rows of a deleted recipe
CascadeRecipe(table, r) ==
    [k \in DOMAIN table |-> IF k[2] = r THEN 0 ELSE table[k]]

\* the requests being served at once: a slot is idle or holds the add
\* request that passed its existence check and has not inserted yet
Slots == 1..MaxInflight
Idle == [op |-> "idle", user |-> AnonymousUser, pk |-> None]
Pending(op, user, pk) == [op |-> op, user |-> user, pk |-> pk]

Respond(op, user, pk, status, data) ==
    [op |-> op, user |-> user, pk |-> pk, status |-> status, data |-> data]

\* permissions.IsAuthenticated.has_permission
IsAuthenticated(user) == user \in users

\* GenericAPIView.get_object: the recipe of the URL is a row
RecipeFound(pk) == pk \in DOMAIN recipes

(***************************************************************************)
(* RecipeViewSet.favorite / delete_favorite                                *)
(***************************************************************************)
favorite(user, pk) ==
    /\ IF ~IsAuthenticated(user) THEN
            /\ response' = Respond("favorite", user, pk, 401, "NotAuthenticated")
            /\ UNCHANGED favorites
       ELSE IF ~RecipeFound(pk) THEN
            /\ response' = Respond("favorite", user, pk, 404, "NotFound")
            /\ UNCHANGED favorites
       ELSE IF Exists(favorites, <<user, pk>>) THEN
            /\ response' = Respond("favorite", user, pk, 400, "Recipe already in favourites.")
            /\ UNCHANGED favorites
       ELSE IF ~UniqueTogether(favorites, <<user, pk>>) THEN
            /\ response' = Respond("favorite", user, pk, 500, "IntegrityError")
            /\ UNCHANGED favorites
       ELSE
            /\ favorites' = Create(favorites, <<user, pk>>)
            /\ response' = Respond("favorite", user, pk, 201, "RecipeShort")
    /\ prev_favorites' = favorites
    /\ UNCHANGED <<users, recipes, recipe_tags, recipe_ingredients,
                   shopping_cart, subscriptions, last_cart, inflight>>

delete_favorite(user, pk) ==
    /\ IF ~IsAuthenticated(user) THEN
            /\ response' = Respond("delete_favorite", user, pk, 401, "NotAuthenticated")
            /\ UNCHANGED favorites
       ELSE IF ~RecipeFound(pk) THEN
            /\ response' = Respond("delete_favorite", user, pk, 404, "NotFound")
            /\ UNCHANGED favorites
       ELSE LET deleted == favorites[<<user, pk>>]
            IN  /\ favorites' = Delete(favorites, <<user, pk>>)
                /\ response' =
                     IF deleted # 0
                     THEN Respond("delete_favorite", user, pk, 204, "")
                     ELSE Respond("delete_favorite", user, pk, 400, "Recipe not in favourites.")
    /\ prev_favorites' = favorites
    /\ UNCHANGED <<users, recipes, recipe_tags, recipe_ingredients,
                   shopping_cart, subscriptions, last_cart, inflight>>

(***************************************************************************)
(* RecipeViewSet.shopping_cart / delete_shopping_cart                      *)
(***************************************************************************)
\* the history of the cart requests: the method of the last request of a
\* user on a recipe that was answered 201 or 204
Track(answer, method) ==
    IF answer.status \in {201, 204}
    THEN [last_cart EXCEPT ![<<answer.user, answer.pk>>] = method]
    ELSE last_cart

shopping_cart_post(user, pk) ==
    /\ IF ~IsAuthenticated(user) THEN
            /\ response' = Respond("shopping_cart", user, pk, 401, "NotAuthenticated")
            /\ UNCHANGED shopping_cart
       ELSE IF ~RecipeFound(pk) THEN
            /\ response' = Respond("shopping_cart", user, pk, 404, "NotFound")
            /\ UNCHANGED shopping_cart
       ELSE IF Exists(shopping_cart, <<user, pk>>) THEN
            /\ response' = Respond("shopping_cart", user, pk, 400, "Recipe already in shopping cart.")
            /\ UNCHANGED shopping_cart
       ELSE IF ~UniqueTogether(shopping_cart, <<user, pk>>) THEN
            /\ response' = Respond("shopping_cart", user, pk, 500, "IntegrityError")
            /\ UNCHANGED shopping_cart
       ELSE
            /\ shopping_cart' = Create(shopping_cart, <<user, pk>>)
            /\ response' = Respond("shopping_cart", user, pk, 201, "RecipeShort")
    /\ last_cart' = Track(response', "POST")
    /\ UNCHANGED <<users, recipes, recipe_tags, recipe_ingredients,
                   favorites, subscriptions, prev_favorites, inflight>>

delete_shopping_cart(user, pk) ==
    /\ IF ~IsAuthenticated(user) THEN
            /\ response' = Respond("delete_shopping_cart", user, pk, 401, "NotAuthenticated")
            /\ UNCHANGED shopping_cart
       ELSE IF ~RecipeFound(pk) THEN
            /\ response' = Respond("delete_shopping_cart", user, pk, 404, "NotFound")
            /\ UNCHANGED shopping_cart
       ELSE LET deleted == shopping_cart[<<user, pk>>]
            IN  /\ shopping_cart' = Delete(shopping_cart, <<user, pk>>)
                /\ response' =
                     IF deleted # 0
                     THEN Respond("delete_shopping_cart", user, pk, 204, "")
                     ELSE Respond("delete_shopping_cart", user, pk, 400,
                                  "Recipe not in shopping cart.")
    /\ last_cart' = Track(response', "DELETE")
    /\ UNCHANGED <<users, recipes, recipe_tags, recipe_ingredients,
                   favorites, subscriptions, prev_favorites, inflight>>

(***************************************************************************)
(* RecipeViewSet.download_shopping_cart                                    *)
(***************************************************************************)
\* ShoppingCart.objects.all(): the filter on the user left out
cart_items_all(user) ==
    {r \in RecipeIds : \E u \in UserIds : shopping_cart[<<u, r>>] > 0}

\* cart_items.values_list('recipe', flat=True) of ShoppingCart.objects.filter(user=user)
cart_items(user) == {r \in RecipeIds : shopping_cart[<<user, r>>] > 0}

\* RecipeIngredient.objects.filter(recipe__in=...): the keys of the rows selected
CartRows(user) ==
    {k \in DOMAIN recipe_ingredients :
        k[1] \in cart_items(user) /\ recipe_ingredients[k] # <<>>}

\* .values('ingredient__name', 'ingredient__measurement_unit'): the groups
GroupKey(i) == <<IngredientName(i), IngredientUnit(i)>>

\* Count('amount') in the place of Sum('amount')
Total_count(user, key) ==
    Cardinality({k \in CartRows(user) : GroupKey(k[2]) = key})

\* .annotate(total=Sum('amount')): the total of one group
Total(user, key) ==
    SumOver(recipe_ingredients, {k \in CartRows(user) : GroupKey(k[2]) = key})

\* one line of the file per group: <<name, unit, total>>
ShoppingLines(user) ==
    {<<GroupKey(k[2])[1], GroupKey(k[2])[2], Total(user, GroupKey(k[2]))>> :
        k \in CartRows(user)}

\* .order_by('ingredient__name')
OrderedByName(s) ==
    \A a, b \in 1..Len(s) : a < b => s[a][1] <= s[b][1]

\* the orders the database may return the lines in: rows of equal name come
\* in any order
Orderings(lines) ==
    {s \in [1..Cardinality(lines) -> lines] :
        /\ \A a, b \in 1..Cardinality(lines) : a # b => s[a] # s[b]
        /\ OrderedByName(s)}

download_shopping_cart(user) ==
    /\ IF ~IsAuthenticated(user) THEN
            response' = Respond("download_shopping_cart", user, None, 401, "NotAuthenticated")
       ELSE IF cart_items(user) = {} THEN
            response' = Respond("download_shopping_cart", user, None, 400, "Shopping cart is empty.")
       ELSE \E content \in Orderings(ShoppingLines(user)) :
            response' = Respond("download_shopping_cart", user, None, 200, content)
    /\ UNCHANGED <<users, recipes, recipe_tags, recipe_ingredients, favorites,
                   shopping_cart, subscriptions, last_cart, prev_favorites, inflight>>

(***************************************************************************)
(* SubscriptionViewSet.create / destroy                                    *)
(***************************************************************************)
\* Python's `a or b`: b when a is falsy (None, 0)
PyOr(a, b) == IF a \in {None, 0} THEN b ELSE a

\* the lookup answers for every id a user ever had, deleted or not
AuthorFound_any(author_id) == author_id \in UserIds

\* request.user.__class__.objects.get(pk=author_id) finds a row
AuthorFound(author_id) == author_id \in users

\* the comparison with the requester left out
IsSelf_never(author, user) == FALSE

\* author == request.user
IsSelf(author, user) == author = user

\* what a client may send as request.data['author'] and as the pk of the URL
AuthorArgs == {None, 0} \cup UserIds

subscription_create(user, data_author, pk) ==
    /\ LET author_id == PyOr(data_author, pk)
       IN  IF ~IsAuthenticated(user) THEN
                /\ response' = Respond("subscribe", user, author_id, 401, "NotAuthenticated")
                /\ UNCHANGED subscriptions
           ELSE IF author_id = None THEN
                /\ response' = Respond("subscribe", user, author_id, 400, "Author id required.")
                /\ UNCHANGED subscriptions
           ELSE IF ~AuthorFound(author_id) THEN
                /\ response' = Respond("subscribe", user, author_id, 404, "Author not found.")
                /\ UNCHANGED subscriptions
           ELSE IF IsSelf(author_id, user) THEN
                /\ response' = Respond("subscribe", user, author_id, 400, "Cannot subscribe to yourself.")
                /\ UNCHANGED subscriptions
           ELSE IF Exists(subscriptions, <<user, author_id>>) THEN
                /\ response' = Respond("subscribe", user, author_id, 400, "Already subscribed.")
                /\ UNCHANGED subscriptions
           ELSE IF ~UniqueTogether(subscriptions, <<user, author_id>>) THEN
                /\ response' = Respond("subscribe", user, author_id, 500, "IntegrityError")
                /\ UNCHANGED subscriptions
           ELSE
                /\ subscriptions' = Create(subscriptions, <<user, author_id>>)
                /\ response' = Respond("subscribe", user, author_id, 201, "Subscription")
    /\ UNCHANGED <<users, recipes, recipe_tags, recipe_ingredients, favorites,
                   shopping_cart, last_cart, prev_favorites, inflight>>

subscription_destroy(user, pk) ==
    /\ IF ~IsAuthenticated(user) THEN
            /\ response' = Respond("unsubscribe", user, pk, 401, "NotAuthenticated")
            /\ UNCHANGED subscriptions
       ELSE IF ~AuthorFound(pk) THEN
            /\ response' = Respond("unsubscribe", user, pk, 404, "Author not found.")
            /\ UNCHANGED subscriptions
       ELSE LET deleted == subscriptions[<<user, pk>>]
            IN  /\ subscriptions' = Delete(subscriptions, <<user, pk>>)
                /\ response' =
                     IF deleted # 0
                     THEN Respond("unsubscribe", user, pk, 204, "")
                     ELSE Respond("unsubscribe", user, pk, 400, "Not subscribed.")
    /\ UNCHANGED <<users, recipes, recipe_tags, recipe_ingredients, favorites,
                   shopping_cart, last_cart, prev_favorites, inflight>>

(***************************************************************************)
(* recipes/permissions.py and the recipe endpoints of RecipeViewSet        *)
(***************************************************************************)
SAFE_METHODS == {"GET", "HEAD", "OPTIONS"}

\* IsAuthorOrReadOnly defines no has_permission: BasePermission's grants
\* every request, whoever sends it
has_permission(method, user) == TRUE

\* any authenticated user may write
has_object_permission_authenticated(method, obj, user) ==
    IF method \in SAFE_METHODS THEN TRUE ELSE IsAuthenticated(user)

\* IsAuthorOrReadOnly.has_object_permission
has_object_permission(method, obj, user) ==
    IF method \in SAFE_METHODS THEN TRUE ELSE obj.author = user

\* APIView.permission_denied: NotAuthenticated or PermissionDenied
permission_denied(op, user, pk) ==
    IF IsAuthenticated(user)
    THEN Respond(op, user, pk, 403, "PermissionDenied")
    ELSE Respond(op, user, pk, 401, "NotAuthenticated")

\* IngredientWriteSerializer.validate_amount passes
validate_amount(value) == ~(value <= 0)

\* ids = [item['id'] for item in value]
ItemIds(value) == [n \in 1..Len(value) |-> value[n].id]

\* RecipeWriteSerializer.validate_ingredients passes
validate_ingredients(value) ==
    /\ value # <<>>
    /\ Len(ItemIds(value)) = Cardinality({ItemIds(value)[n] : n \in 1..Len(value)})

\* RecipeWriteSerializer.validate_tags passes
validate_tags(value) == value # {}

\* PrimaryKeyRelatedField(many=True, queryset=Tag.objects.all()) passes
tags_exist(value) == value \subseteq Tags

WriteFields == {"ingredients", "tags", "name"}

\* RecipeWriteSerializer(...).is_valid(): `partial` is PATCH
is_valid(data, partial) ==
    /\ partial \/ WriteFields \subseteq DOMAIN data
    /\ "ingredients" \in DOMAIN data =>
            /\ \A n \in 1..Len(data.ingredients) : validate_amount(data.ingredients[n].amount)
            /\ validate_ingredients(data.ingredients)
    /\ "tags" \in DOMAIN data =>
            /\ tags_exist(data.tags)
            /\ validate_tags(data.tags)

\* the amounts of the items of ingredients_data that name ingredient i, in order
RECURSIVE AmountsOf(_, _)
AmountsOf(items, i) ==
    IF items = <<>> THEN <<>>
    ELSE (IF Head(items).id = i THEN <<Head(items).amount>> ELSE <<>>)
         \o AmountsOf(Tail(items), i)

\* Ingredient.objects.get(pk=item['id']) finds a row for every item
ingredients_found(items) == \A n \in 1..Len(items) : items[n].id \in Ingredients

\* RecipeIngredient.Meta.unique_together on the rows of a table
UniqueRows(rows) == \A k \in DOMAIN rows : Len(rows[k]) <= 1

\* RecipeWriteSerializer._save_ingredients: the table after bulk_create
\* added a row per item to the rows `rows`
_save_ingredients(rows, recipe, items) ==
    [k \in DOMAIN rows |->
        IF k[1] = recipe THEN rows[k] \o AmountsOf(items, k[2]) ELSE rows[k]]

\* instance.recipe_ingredients.all().delete()
delete_recipe_ingredients(rows, recipe) ==
    [k \in DOMAIN rows |-> IF k[1] = recipe THEN <<>> ELSE rows[k]]

\* the keywords `Recipe.objects.create(author=request.user, **validated_data)`
\* names itself
ExplicitKeywords == {"author"}

\* the primary key the database gives the next Recipe row
NextPk == CHOOSE r \in RecipeIds : \A x \in DOMAIN recipes : r > x

\* RecipeViewSet.create with perform_create and RecipeWriteSerializer.create
recipe_create(user, data) ==
    IF ~has_permission("POST", user) THEN
        /\ response' = permission_denied("create", user, None)
        /\ UNCHANGED <<recipes, recipe_tags, recipe_ingredients>>
    ELSE IF ~is_valid(data, FALSE) THEN
        /\ response' = Respond("create", user, None, 400, "ValidationError")
        /\ UNCHANGED <<recipes, recipe_tags, recipe_ingredients>>
    ELSE
        \* serializer.save(author=self.request.user)
        LET validated_data == [author |-> user] @@ data
            \* validated_data.pop('ingredients'); validated_data.pop('tags')
            rest == DOMAIN validated_data \ {"ingredients", "tags"}
            rows == _save_ingredients(recipe_ingredients, NextPk, data.ingredients)
        IN  IF ExplicitKeywords \cap rest # {} THEN
                \* author is passed twice to Recipe.objects.create
                /\ response' = Respond("create", user, None, 500, "TypeError")
                /\ UNCHANGED <<recipes, recipe_tags, recipe_ingredients>>
            ELSE IF ~IsAuthenticated(user) THEN
                /\ response' = Respond("create", user, None, 500, "ValueError")
                /\ UNCHANGED <<recipes, recipe_tags, recipe_ingredients>>
            ELSE IF ~ingredients_found(data.ingredients) THEN
                /\ response' = Respond("create", user, None, 500, "DoesNotExist")
                /\ UNCHANGED <<recipes, recipe_tags, recipe_ingredients>>
            ELSE IF ~UniqueRows(rows) THEN
                /\ response' = Respond("create", user, None, 500, "IntegrityError")
                /\ UNCHANGED <<recipes, recipe_tags, recipe_ingredients>>
            ELSE
                /\ recipes' = [r \in DOMAIN recipes \cup {NextPk} |->
                                 IF r = NextPk
                                 THEN [author |-> user, name |-> data.name]
                                 ELSE recipes[r]]
                /\ recipe_tags' = [r \in DOMAIN recipes \cup {NextPk} |->
                                     IF r = NextPk THEN data.tags ELSE recipe_tags[r]]
                /\ recipe_ingredients' = rows
                /\ response' = Respond("create", user, NextPk, 201, "RecipeRead")

create(user, data) ==
    /\ recipe_create(user, data)
    /\ UNCHANGED <<users, favorites, shopping_cart, subscriptions, last_cart, prev_favorites, inflight>>

\* RecipeViewSet.retrieve (GET)
retrieve(user, pk) ==
    /\ response' =
         IF ~RecipeFound(pk) THEN Respond("retrieve", user, pk, 404, "NotFound")
         ELSE IF ~has_object_permission("GET", recipes[pk], user)
              THEN permission_denied("retrieve", user, pk)
         ELSE Respond("retrieve", user, pk, 200, "RecipeRead")
    /\ UNCHANGED <<users, recipes, recipe_tags, recipe_ingredients, favorites,
                   shopping_cart, subscriptions, last_cart, prev_favorites, inflight>>

\* RecipeViewSet.partial_update (PATCH) with RecipeWriteSerializer.update
recipe_update(user, pk, data) ==
    LET rows == _save_ingredients(delete_recipe_ingredients(recipe_ingredients, pk),
                                  pk, data.ingredients)
    IN  IF "ingredients" \in DOMAIN data /\ ~ingredients_found(data.ingredients) THEN
            \* transaction.atomic rolls the update back
            /\ response' = Respond("partial_update", user, pk, 500, "DoesNotExist")
            /\ UNCHANGED <<recipes, recipe_tags, recipe_ingredients>>
        ELSE IF "ingredients" \in DOMAIN data /\ ~UniqueRows(rows) THEN
            /\ response' = Respond("partial_update", user, pk, 500, "IntegrityError")
            /\ UNCHANGED <<recipes, recipe_tags, recipe_ingredients>>
        ELSE
            /\ recipes' = IF "name" \in DOMAIN data
                          THEN [recipes EXCEPT ![pk].name = data.name]
                          ELSE recipes
            /\ recipe_tags' = IF "tags" \in DOMAIN data
                              THEN [recipe_tags EXCEPT ![pk] = data.tags]
                              ELSE recipe_tags
            /\ recipe_ingredients' = IF "ingredients" \in DOMAIN data
                                     THEN rows ELSE recipe_ingredients
            /\ response' = Respond("partial_update", user, pk, 200, "RecipeRead")

partial_update(user, pk, data) ==
    /\ IF ~has_permission("PATCH", user) THEN
            /\ response' = permission_denied("partial_update", user, pk)
            /\ UNCHANGED <<recipes, recipe_tags, recipe_ingredients>>
       ELSE IF ~RecipeFound(pk) THEN
            /\ response' = Respond("partial_update", user, pk, 404, "NotFound")
            /\ UNCHANGED <<recipes, recipe_tags, recipe_ingredients>>
       ELSE IF ~has_object_permission("PATCH", recipes[pk], user) THEN
            /\ response' = permission_denied("partial_update", user, pk)
            /\ UNCHANGED <<recipes, recipe_tags, recipe_ingredients>>
       ELSE IF ~is_valid(data, TRUE) THEN
            /\ response' = Respond("partial_update", user, pk, 400, "ValidationError")
            /\ UNCHANGED <<recipes, recipe_tags, recipe_ingredients>>
       ELSE recipe_update(user, pk, data)
    /\ UNCHANGED <<users, favorites, shopping_cart, subscriptions, last_cart, prev_favorites, inflight>>

\* RecipeViewSet.update (PUT): get_serializer_class gives RecipeReadSerializer,
\* whose tags and ingredients are read-only; name is required
update(user, pk, data) ==
    /\ IF ~has_permission("PUT", user) THEN
            /\ response' = permission_denied("update", user, pk)
            /\ UNCHANGED recipes
       ELSE IF ~RecipeFound(pk) THEN
            /\ response' = Respond("update", user, pk, 404, "NotFound")
            /\ UNCHANGED recipes
       ELSE IF ~has_object_permission("PUT", recipes[pk], user) THEN
            /\ response' = permission_denied("update", user, pk)
            /\ UNCHANGED recipes
       ELSE IF "name" \notin DOMAIN data THEN
            /\ response' = Respond("update", user, pk, 400, "ValidationError")
            /\ UNCHANGED recipes
       ELSE
            /\ recipes' = [recipes EXCEPT ![pk].name = data.name]
            /\ response' = Respond("update", user, pk, 200, "RecipeRead")
    /\ UNCHANGED <<users, recipe_tags, recipe_ingredients, favorites,
                   shopping_cart, subscriptions, last_cart, prev_favorites, inflight>>

\* RecipeViewSet.destroy (DELETE): instance.delete() with its cascades
destroy(user, pk) ==
    /\ IF ~has_permission("DELETE", user) THEN
            /\ response' = permission_denied("destroy", user, pk)
            /\ UNCHANGED <<recipes, recipe_tags, recipe_ingredients, favorites, shopping_cart>>
       ELSE IF ~RecipeFound(pk) THEN
            /\ response' = Respond("destroy", user, pk, 404, "NotFound")
            /\ UNCHANGED <<recipes, recipe_tags, recipe_ingredients, favorites, shopping_cart>>
       ELSE IF ~has_object_permission("DELETE", recipes[pk], user) THEN
            /\ response' = permission_denied("destroy", user, pk)
            /\ UNCHANGED <<recipes, recipe_tags, recipe_ingredients, favorites, shopping_cart>>
       ELSE
            /\ recipes' = [r \in DOMAIN recipes \ {pk} |-> recipes[r]]
            /\ recipe_tags' = [r \in DOMAIN recipes \ {pk} |-> recipe_tags[r]]
            /\ recipe_ingredients' = delete_recipe_ingredients(recipe_ingredients, pk)
            /\ favorites' = CascadeRecipe(favorites, pk)
            /\ shopping_cart' = CascadeRecipe(shopping_cart, pk)
            /\ response' = Respond("destroy", user, pk, 204, "")
    /\ UNCHANGED <<users, subscriptions, last_cart, prev_favorites, inflight>>

(***************************************************************************)
(* Request bodies: the keys are the fields the client sent.                *)
(***************************************************************************)
Items == [id : IngredientIds, amount : 0..MaxAmount]

\* ingredient lists of up to two items
IngredientLists ==
    {<<>>} \cup {<<a>> : a \in Items} \cup {<<a, b>> : a \in Items, b \in Items}

NoField == [k \in {} |-> 0]

NameData == {NoField} \cup {[name |-> x] : x \in Names \ {"old"}}

RequestData ==
    {i @@ t @@ n :
        i \in {NoField} \cup {[ingredients |-> l] : l \in IngredientLists},
        t \in {NoField} \cup {[tags |-> x] : x \in SUBSET TagIds},
        n \in NameData}

\* the bodies sent with a PATCH: a request refused before its body is read
\* is sent with an empty one
PatchData(user, pk) ==
    IF RecipeFound(pk) /\ has_object_permission("PATCH", recipes[pk], user)
    THEN RequestData ELSE {NoField}

\* the bodies sent with a PUT: the fields of a write, of which the serialiser
\* of a PUT reads the name alone; ingredient lists of up to one item
PutData ==
    {d \in RequestData : "ingredients" \in DOMAIN d => Len(d.ingredients) <= 1}

(***************************************************************************)
(* The database the requests start from: the users, the recipes (each      *)
(* with tags and ingredient amounts) and the join rows entered before.     *)
(***************************************************************************)
SeedAuthor(r) == ((r - 1) % NumUsers) + 1

SeedAmounts(r, i) ==
    IF r <= NumRecipes /\ i <= NumIngredients /\ i <= r
    THEN <<r - i + 1>> ELSE <<>>

\* the account of the user entered as the u-th: addresses are stored as
\* create_user normalises them
SeedAccount(u) ==
    [email |-> [name |-> u, domain |-> "x.com"],
     username |-> [name |-> u, form |-> "nfkc"]]

NoRows == [k \in UserIds \X RecipeIds |-> 0]
SeedRows == [k \in UserIds \X RecipeIds |-> IF k = <<1, 1>> THEN 1 ELSE 0]

\* `present` are the ids of the users and `seeded` the ids of the recipes
\* entered before
InitWith(present, seeded) ==
    /\ users = present
    /\ recipes = [r \in seeded |-> [author |-> SeedAuthor(r), name |-> "old"]]
    /\ recipe_tags = [r \in seeded |-> {t \in Tags : t <= r}]
    /\ recipe_ingredients =
         [k \in RecipeIds \X IngredientIds |->
             IF k[1] \in seeded THEN SeedAmounts(k[1], k[2]) ELSE <<>>]
    /\ subscriptions = [k \in UserIds \X UserIds |-> 0]
    /\ response = Respond("none", AnonymousUser, None, 0, "")
    /\ last_cart = [k \in UserIds \X RecipeIds |-> "none"]
    /\ prev_favorites = NoRows
    /\ inflight = [slot \in Slots |-> Idle]
    /\ served = 0
    /\ accounts = [u \in present |-> SeedAccount(u)]
    /\ request = NoField

\* `seeded` are the ids of the recipes entered before
InitDatabase(seeded) == InitWith(1..NumUsers, seeded)

(***************************************************************************)
(* The favourites endpoints, served one request at a time.                 *)
(***************************************************************************)
InitFav ==
    /\ InitDatabase(1..NumRecipes)
    /\ favorites = NoRows
    /\ shopping_cart = SeedRows

NextFav ==
    \/ \E user \in Requesters, pk \in RecipeIds :
            favorite(user, pk) /\ UNCHANGED <<served, accounts, request>>
    \/ \E user \in Requesters, pk \in RecipeIds :
            delete_favorite(user, pk) /\ UNCHANGED <<served, accounts, request>>

SpecFav == InitFav /\ [][NextFav]_vars

(***************************************************************************)
(* The shopping-cart endpoints, served one request at a time.              *)
(***************************************************************************)
InitCart ==
    /\ InitDatabase(1..NumRecipes)
    /\ favorites = SeedRows
    /\ shopping_cart = NoRows

NextCart ==
    \/ \E user \in Requesters, pk \in RecipeIds :
            shopping_cart_post(user, pk) /\ UNCHANGED <<served, accounts, request>>
    \/ \E user \in Requesters, pk \in RecipeIds :
            delete_shopping_cart(user, pk) /\ UNCHANGED <<served, accounts, request>>
    \/ \E user \in Requesters :
            download_shopping_cart(user) /\ UNCHANGED <<served, accounts, request>>

SpecCart == InitCart /\ [][NextCart]_vars

(***************************************************************************)
(* The subscription endpoints, served one request at a time.               *)
(***************************************************************************)
InitSubs ==
    /\ InitDatabase(1..NumRecipes)
    /\ favorites = SeedRows
    /\ shopping_cart = SeedRows

NextSubs ==
    \/ \E user \in Requesters, data_author \in AuthorArgs, pk \in AuthorArgs :
            subscription_create(user, data_author, pk) /\ UNCHANGED <<served, accounts, request>>
    \/ \E user \in Requesters, pk \in AuthorArgs \ {None} :
            subscription_destroy(user, pk) /\ UNCHANGED <<served, accounts, request>>

SpecSubs == InitSubs /\ [][NextSubs]_vars

(***************************************************************************)
(* The recipe endpoints, served one request at a time.                     *)
(***************************************************************************)
InitRecipes ==
    /\ \E r \in 1..NumRecipes : InitDatabase({r})
    /\ favorites = SeedRows
    /\ shopping_cart = SeedRows

NextRecipes ==
    \/ \E user \in Requesters, data \in RequestData :
            create(user, data) /\ UNCHANGED <<served, accounts, request>>
    \/ \E user \in Requesters, pk \in RecipeIds :
            retrieve(user, pk) /\ UNCHANGED <<served, accounts, request>>
    \/ \E user \in Requesters, pk \in RecipeIds :
            \E data \in PatchData(user, pk) :
                partial_update(user, pk, data) /\ UNCHANGED <<served, accounts, request>>
    \/ \E user \in Requesters, pk \in RecipeIds, data \in PutData :
            update(user, pk, data) /\ UNCHANGED <<served, accounts, request>>
    \/ \E user \in Requesters, pk \in RecipeIds :
            destroy(user, pk) /\ UNCHANGED <<served, accounts, request>>

SpecRecipes == InitRecipes /\ [][NextRecipes]_vars

(***************************************************************************)
(* Requests served at once.  Django runs each statement in its own         *)
(* transaction (autocommit), so between the .exists() of an add handler    *)
(* and its .create() other requests may run: an add request is two steps,  *)
(* its check and its insert.  A .filter().delete() is one statement, and   *)
(* RecipeWriteSerializer.create / update run inside transaction.atomic.    *)
(***************************************************************************)
OtherTables == <<users, recipes, recipe_tags, recipe_ingredients, last_cart>>

\* the steps of RecipeViewSet.favorite up to Favorite.objects.filter(...).exists()
favorite_check(slot, user, pk) ==
    /\ inflight[slot] = Idle
    /\ IF ~IsAuthenticated(user) THEN
            /\ response' = Respond("favorite", user, pk, 401, "NotAuthenticated")
            /\ UNCHANGED inflight
       ELSE IF ~RecipeFound(pk) THEN
            /\ response' = Respond("favorite", user, pk, 404, "NotFound")
            /\ UNCHANGED inflight
       ELSE IF Exists(favorites, <<user, pk>>) THEN
            /\ response' = Respond("favorite", user, pk, 400, "Recipe already in favourites.")
            /\ UNCHANGED inflight
       ELSE /\ inflight' = [inflight EXCEPT ![slot] = Pending("favorite", user, pk)]
            /\ UNCHANGED response
    /\ UNCHANGED <<OtherTables, prev_favorites, favorites, shopping_cart, subscriptions>>

\* Favorite.objects.create(user=user, recipe=recipe) and the response
favorite_insert(slot) ==
    /\ inflight[slot].op = "favorite"
    /\ LET user == inflight[slot].user
           pk == inflight[slot].pk
       IN  IF ~UniqueTogether(favorites, <<user, pk>>) THEN
                /\ response' = Respond("favorite", user, pk, 500, "IntegrityError")
                /\ UNCHANGED favorites
           ELSE /\ favorites' = Create(favorites, <<user, pk>>)
                /\ response' = Respond("favorite", user, pk, 201, "RecipeShort")
    /\ inflight' = [inflight EXCEPT ![slot] = Idle]
    /\ prev_favorites' = favorites
    /\ UNCHANGED <<OtherTables, shopping_cart, subscriptions>>

\* the steps of RecipeViewSet.shopping_cart up to ShoppingCart.objects.filter(...).exists()
shopping_cart_check(slot, user, pk) ==
    /\ inflight[slot] = Idle
    /\ IF ~IsAuthenticated(user) THEN
            /\ response' = Respond("shopping_cart", user, pk, 401, "NotAuthenticated")
            /\ UNCHANGED inflight
       ELSE IF ~RecipeFound(pk) THEN
            /\ response' = Respond("shopping_cart", user, pk, 404, "NotFound")
            /\ UNCHANGED inflight
       ELSE IF Exists(shopping_cart, <<user, pk>>) THEN
            /\ response' = Respond("shopping_cart", user, pk, 400, "Recipe already in shopping cart.")
            /\ UNCHANGED inflight
       ELSE /\ inflight' = [inflight EXCEPT ![slot] = Pending("shopping_cart", user, pk)]
            /\ UNCHANGED response
    /\ UNCHANGED <<OtherTables, prev_favorites, favorites, shopping_cart, subscriptions>>

\* ShoppingCart.objects.create(user=user, recipe=recipe) and the response
shopping_cart_insert(slot) ==
    /\ inflight[slot].op = "shopping_cart"
    /\ LET user == inflight[slot].user
           pk == inflight[slot].pk
       IN  IF ~UniqueTogether(shopping_cart, <<user, pk>>) THEN
                /\ response' = Respond("shopping_cart", user, pk, 500, "IntegrityError")
                /\ UNCHANGED shopping_cart
           ELSE /\ shopping_cart' = Create(shopping_cart, <<user, pk>>)
                /\ response' = Respond("shopping_cart", user, pk, 201, "RecipeShort")
    /\ inflight' = [inflight EXCEPT ![slot] = Idle]
    /\ last_cart' = Track(response', "POST")
    /\ UNCHANGED <<users, recipes, recipe_tags, recipe_ingredients,
                   prev_favorites, favorites, subscriptions>>

\* the steps of SubscriptionViewSet.create up to Subscription.objects.filter(...).exists()
subscribe_check(slot, user, data_author, pk) ==
    /\ inflight[slot] = Idle
    /\ LET author_id == PyOr(data_author, pk)
       IN  IF ~IsAuthenticated(user) THEN
                /\ response' = Respond("subscribe", user, author_id, 401, "NotAuthenticated")
                /\ UNCHANGED inflight
           ELSE IF author_id = None THEN
                /\ response' = Respond("subscribe", user, author_id, 400, "Author id required.")
                /\ UNCHANGED inflight
           ELSE IF ~AuthorFound(author_id) THEN
                /\ response' = Respond("subscribe", user, author_id, 404, "Author not found.")
                /\ UNCHANGED inflight
           ELSE IF IsSelf(author_id, user) THEN
                /\ response' = Respond("subscribe", user, author_id, 400, "Cannot subscribe to yourself.")
                /\ UNCHANGED inflight
           ELSE IF Exists(subscriptions, <<user, author_id>>) THEN
                /\ response' = Respond("subscribe", user, author_id, 400, "Already subscribed.")
                /\ UNCHANGED inflight
           ELSE /\ inflight' = [inflight EXCEPT ![slot] = Pending("subscribe", user, author_id)]
                /\ UNCHANGED response
    /\ UNCHANGED <<OtherTables, prev_favorites, favorites, shopping_cart, subscriptions>>

\* Subscription.objects.create(user=request.user, author=author) and the response
subscribe_insert(slot) ==
    /\ inflight[slot].op = "subscribe"
    /\ LET user == inflight[slot].user
           pk == inflight[slot].pk
       IN  IF ~UniqueTogether(subscriptions, <<user, pk>>) THEN
                /\ response' = Respond("subscribe", user, pk, 500, "IntegrityError")
                /\ UNCHANGED subscriptions
           ELSE /\ subscriptions' = Create(subscriptions, <<user, pk>>)
                /\ response' = Respond("subscribe", user, pk, 201, "Subscription")
    /\ inflight' = [inflight EXCEPT ![slot] = Idle]
    /\ UNCHANGED <<OtherTables, prev_favorites, favorites, shopping_cart>>

\* the bodies of the recipe writes sent here: every field, and the
\* ingredient list anything a client may send
WriteData ==
    {[ingredients |-> l, tags |-> {1}, name |-> "new"] : l \in IngredientLists}

InitConc ==
    /\ InitDatabase(1..NumRecipes)
    /\ favorites = NoRows
    /\ shopping_cart = NoRows

\* a request is taken up
Taken ==
    /\ served < MaxRequests
    /\ served' = served + 1
    /\ UNCHANGED <<accounts, request>>

NextConc ==
    \/ \E slot \in Slots, user \in 1..NumUsers, pk \in RecipeIds :
            Taken /\ favorite_check(slot, user, pk)
    \/ \E slot \in Slots : favorite_insert(slot) /\ UNCHANGED <<served, accounts, request>>
    \/ \E slot \in Slots, user \in 1..NumUsers, pk \in RecipeIds :
            Taken /\ shopping_cart_check(slot, user, pk)
    \/ \E slot \in Slots : shopping_cart_insert(slot) /\ UNCHANGED <<served, accounts, request>>
    \/ \E slot \in Slots, user \in 1..NumUsers, pk \in UserIds :
            Taken /\ subscribe_check(slot, user, None, pk)
    \/ \E slot \in Slots : subscribe_insert(slot) /\ UNCHANGED <<served, accounts, request>>
    \/ \E user \in 1..NumUsers, pk \in RecipeIds :
            Taken /\ delete_favorite(user, pk)
    \/ \E user \in 1..NumUsers, pk \in RecipeIds :
            Taken /\ delete_shopping_cart(user, pk)
    \/ \E user \in 1..NumUsers, pk \in UserIds :
            Taken /\ subscription_destroy(user, pk)
    \/ \E user \in 1..NumUsers, data \in WriteData :
            Taken /\ create(user, data)
    \/ \E user \in 1..NumUsers, pk \in RecipeIds, data \in WriteData :
            Taken /\ partial_update(user, pk, data)

SpecConc == InitConc /\ [][NextConc]_vars

(***************************************************************************)
(* RecipeViewSet.list: get_queryset, then the paginator settings.py names. *)
(* A queryset is the sequence of the ids of its rows, a row as often as    *)
(* the query yields it.  Query parameters are a function of the names the  *)
(* client sent.                                                            *)
(***************************************************************************)
\* REST_FRAMEWORK['PAGE_SIZE']
PAGE_SIZE == 6

\* Recipe.Meta.ordering = ['-pub_date'], pub_date being the time of the
\* insert: the rows of S, the one entered last (the greatest id) first
RECURSIVE OrderByPubDate(_)
OrderByPubDate(S) ==
    IF S = {} THEN <<>>
    ELSE LET r == CHOOSE x \in S : \A y \in S : y <= x
         IN  <<r>> \o OrderByPubDate(S \ {r})

\* queryset.filter(tags__slug__in=tags): the join with the tag links has
\* a row per link of a recipe to one of the tags
RECURSIVE FilterTags(_, _)
FilterTags(qs, tags) ==
    IF qs = <<>> THEN <<>>
    ELSE [n \in 1..Cardinality(recipe_tags[Head(qs)] \cap tags) |-> Head(qs)]
         \o FilterTags(Tail(qs), tags)

\* the rows as the join yields them
Distinct_off(qs) == qs

\* .distinct()
RECURSIVE Distinct(_)
Distinct(qs) ==
    IF qs = <<>> THEN <<>>
    ELSE LET keep(r) == r # Head(qs)
         IN  <<Head(qs)>> \o Distinct(SelectSeq(Tail(qs), keep))

\* the parameter is present and the flag set whatever its value
Flag_any(value) == TRUE

\* flag = bool(int(value)), False on ValueError; of the values a client
\* sends here "0", "1" and "2" are integers
Flag(value) == value \in {"1", "2"}

\* queryset.filter(id__in=ids) when flag, queryset.exclude(id__in=ids) otherwise
FilterIn(qs, ids, flag) ==
    LET keep(r) == (r \in ids) = flag
    IN  SelectSeq(qs, keep)

\* Model.objects.filter(user=user).values_list('recipe_id', flat=True)
RecipeIdsOf(table, user) == {r \in RecipeIds : table[<<user, r>>] > 0}

\* RecipeViewSet.get_queryset
get_queryset(user, params) ==
    LET all == OrderByPubDate(DOMAIN recipes)
        tagged == IF "tags" \in DOMAIN params /\ params.tags # {}
                  THEN Distinct(FilterTags(all, params.tags)) ELSE all
        by_author(r) == recipes[r].author = params.author
        authored == IF "author" \in DOMAIN params
                    THEN SelectSeq(tagged, by_author) ELSE tagged
        favorited == IF "is_favorited" \in DOMAIN params /\ IsAuthenticated(user)
                     THEN FilterIn(authored, RecipeIdsOf(favorites, user),
                                   Flag(params.is_favorited))
                     ELSE authored
    IN  IF "is_in_shopping_cart" \in DOMAIN params /\ IsAuthenticated(user)
        THEN FilterIn(favorited, RecipeIdsOf(shopping_cart, user),
                      Flag(params.is_in_shopping_cart))
        ELSE favorited

\* PageNumberPagination.get_page_size: page_size_query_param is None, so
\* no query parameter is read
get_page_size(params) == PAGE_SIZE

\* Paginator.num_pages, the first page being allowed to be empty
num_pages(count, size) ==
    IF count = 0 THEN 1 ELSE (count + size - 1) \div size

\* RecipeViewSet.list (GET on the collection)
list(user, params) ==
    /\ LET qs == get_queryset(user, params)
           size == get_page_size(params)
           number == IF "page" \in DOMAIN params THEN params.page ELSE 1
           bottom == (number - 1) * size
           top == IF bottom + size < Len(qs) THEN bottom + size ELSE Len(qs)
       IN  response' =
             IF number < 1 \/ number > num_pages(Len(qs), size)
             THEN Respond("list", user, None, 404, "Invalid page.")
             ELSE Respond("list", user, None, 200,
                          [count |-> Len(qs), results |-> SubSeq(qs, bottom + 1, top)])
    /\ request' = params
    /\ UNCHANGED <<users, recipes, recipe_tags, recipe_ingredients, favorites,
                   shopping_cart, subscriptions, last_cart, prev_favorites,
                   inflight, served, accounts>>

\* the filters by tag slugs and author id a client may send
TagParams ==
    {t @@ a :
        t \in {NoField} \cup {[tags |-> x] : x \in SUBSET TagIds},
        a \in {NoField} \cup {[author |-> x] : x \in UserIds}}

\* the flags a client may send, alone or with a filter by tag
FlagParams ==
    {f @@ c @@ t :
        f \in {NoField} \cup {[is_favorited |-> x] : x \in {"0", "1", "x"}},
        c \in {NoField} \cup {[is_in_shopping_cart |-> x] : x \in {"0", "2", ""}},
        t \in {NoField, [tags |-> {NumTags}]}}

\* the paging a client may ask for
PageParams ==
    {g @@ l :
        g \in {NoField} \cup {[page |-> x] : x \in 0..2},
        l \in {NoField} \cup {[limit |-> x] : x \in 1..NumRecipes}}

\* the join rows of a database in which user 1 has the recipes S as
\* favourites and user 2 has them in the cart
ListRows(u, S) ==
    [k \in UserIds \X RecipeIds |->
        IF (k[1] = u /\ k[2] \in S) \/ (k[1] # u /\ k[1] \in 1..NumUsers /\ k[2] = 1)
        THEN 1 ELSE 0]

InitList ==
    /\ InitDatabase(1..NumRecipes)
    /\ \E S \in SUBSET (1..NumRecipes) :
            /\ favorites = ListRows(1, S)
            /\ shopping_cart = ListRows(2, S)

NextList ==
    \/ \E user \in Requesters, params \in TagParams : list(user, params)
    \/ \E user \in Requesters, params \in FlagParams : list(user, params)
    \/ \E user \in Requesters, params \in PageParams : list(user, params)

SpecList == InitList /\ [][NextList]_vars

(***************************************************************************)
(* Deleting a user: Django collects the rows whose foreign keys, all       *)
(* declared on_delete=CASCADE, lead to the user and deletes them with it.  *)
(***************************************************************************)
\* the rows that name the user are kept
CascadeUser_off(table, u) == table

\* the rows of `table` left when user u is deleted
CascadeUser(table, u) ==
    [k \in DOMAIN table |-> IF k[1] = u THEN 0 ELSE table[k]]

\* the Subscription rows left when the author u is deleted
CascadeAuthor(table, u) ==
    [k \in DOMAIN table |-> IF k[2] = u THEN 0 ELSE table[k]]

\* Recipe.author: the recipes deleted with user u
RecipesOf(u) == {r \in DOMAIN recipes : recipes[r].author = u}

\* the rows of `table` left when the recipes S are deleted
RECURSIVE CascadeRecipes(_, _)
CascadeRecipes(table, S) ==
    IF S = {} THEN table
    ELSE LET r == CHOOSE x \in S : TRUE
         IN  CascadeRecipes(CascadeRecipe(table, r), S \ {r})

\* the RecipeIngredient rows left when the recipes S are deleted
RECURSIVE CascadeIngredients(_, _)
CascadeIngredients(rows, S) ==
    IF S = {} THEN rows
    ELSE LET r == CHOOSE x \in S : TRUE
         IN  CascadeIngredients(delete_recipe_ingredients(rows, r), S \ {r})

\* user.delete()
user_delete(u) ==
    /\ u \in users
    /\ users' = users \ {u}
    /\ accounts' = [v \in DOMAIN accounts \ {u} |-> accounts[v]]
    /\ recipes' = [r \in DOMAIN recipes \ RecipesOf(u) |-> recipes[r]]
    /\ recipe_tags' = [r \in DOMAIN recipes \ RecipesOf(u) |-> recipe_tags[r]]
    /\ recipe_ingredients' = CascadeIngredients(recipe_ingredients, RecipesOf(u))
    /\ favorites' = CascadeRecipes(CascadeUser(favorites, u), RecipesOf(u))
    /\ shopping_cart' = CascadeRecipes(CascadeUser(shopping_cart, u), RecipesOf(u))
    /\ subscriptions' = CascadeAuthor(CascadeUser(subscriptions, u), u)
    /\ response' = Respond("user_delete", u, u, 204, "")
    /\ UNCHANGED <<last_cart, prev_favorites, inflight, served, request>>

InitDel ==
    /\ InitDatabase(1..NumRecipes)
    /\ favorites = SeedRows
    /\ shopping_cart = NoRows

NextDel ==
    \/ \E u \in 1..NumUsers : user_delete(u)
    \/ \E user \in Requesters, pk \in RecipeIds :
            destroy(user, pk) /\ UNCHANGED <<served, accounts, request>>
    \/ \E user \in Requesters, pk \in RecipeIds :
            favorite(user, pk) /\ UNCHANGED <<served, accounts, request>>
    \/ \E user \in Requesters, pk \in RecipeIds :
            shopping_cart_post(user, pk) /\ UNCHANGED <<served, accounts, request>>
    \/ \E user \in Requesters, pk \in UserIds :
            subscription_create(user, None, pk) /\ UNCHANGED <<served, accounts, request>>

SpecDel == InitDel /\ [][NextDel]_vars

(***************************************************************************)
(* Registration: djoser's create with users.serializers.UserCreateSerializer. *)
(* An address is a local part and a domain, the domain in lower or in      *)
(* upper case; a username is a name in its NFKC form or in a compatibility *)
(* form of it.                                                             *)
(***************************************************************************)
Emails == [name : UserIds, domain : {"x.com", "X.com"}]
Usernames == [name : UserIds, form : {"nfkc", "compat"}]

\* BaseUserManager.normalize_email, called by create_user: the domain part
\* in lower case
normalize_email(email) == [email EXCEPT !.domain = "x.com"]

\* AbstractBaseUser.normalize_username, called by create_user: NFKC
normalize_username(username) == [username EXCEPT !.form = "nfkc"]

\* the check left out
validate_email_off(value) == TRUE

\* UserCreateSerializer.validate_email passes
validate_email(value) == ~\E u \in users : accounts[u].email = value

\* UserCreateSerializer.validate_username passes
validate_username(value) == ~\E u \in users : accounts[u].username = value

\* User.email unique=True and the unique username of AbstractUser admit the row
UniqueAccount(email, username) ==
    ~\E u \in users : accounts[u].email = email \/ accounts[u].username = username

\* the primary key the database gives the next User row
NextUserPk == CHOOSE pk \in 1..(NumUsers + 2) : \A u \in users : pk > u

\* the registration request, UserCreateSerializer.create included; data.names
\* tells whether first_name and last_name were sent
register(data) ==
    /\ NextUserPk \in UserIds
    /\ request' = data
    /\ IF ~(validate_email(data.email) /\ validate_username(data.username)) THEN
            /\ response' = Respond("register", AnonymousUser, None, 400, "ValidationError")
            /\ UNCHANGED <<users, accounts>>
       ELSE IF ~data.names THEN
            \* validated_data['first_name']
            /\ response' = Respond("register", AnonymousUser, None, 500, "KeyError")
            /\ UNCHANGED <<users, accounts>>
       ELSE IF ~UniqueAccount(normalize_email(data.email),
                              normalize_username(data.username)) THEN
            /\ response' = Respond("register", AnonymousUser, None, 500, "IntegrityError")
            /\ UNCHANGED <<users, accounts>>
       ELSE
            /\ users' = users \cup {NextUserPk}
            /\ accounts' = [u \in users \cup {NextUserPk} |->
                              IF u = NextUserPk
                              THEN [email |-> normalize_email(data.email),
                                    username |-> normalize_username(data.username)]
                              ELSE accounts[u]]
            /\ response' = Respond("register", AnonymousUser, NextUserPk, 201, "UserCreate")
    /\ UNCHANGED <<recipes, recipe_tags, recipe_ingredients, favorites,
                   shopping_cart, subscriptions, last_cart, prev_favorites,
                   inflight, served>>

RegisterData == [email : Emails, username : Usernames, names : BOOLEAN]

\* one user, with the recipe that user wrote
InitReg ==
    /\ InitWith({1}, {r \in 1..NumRecipes : SeedAuthor(r) = 1})
    /\ favorites = SeedRows
    /\ shopping_cart = SeedRows

NextReg == \E data \in RegisterData : register(data)

SpecReg == InitReg /\ [][NextReg]_vars

(***************************************************************************)
(* Properties.  A request and its answer are read off `response`: every    *)
(* handler writes there who asked for what and what was answered.          *)
(***************************************************************************)
RecipeState == <<recipes, recipe_tags, recipe_ingredients>>

\* C1: only the author of a recipe can modify it.  A PATCH, PUT or DELETE
\* on a recipe by anyone who is not its author (another user, an anonymous
\* client) is denied (401 or 403) and leaves the recipe rows, its tags, its
\* ingredient amounts and the join rows as they were; a GET of an existing
\* recipe is answered 200 whoever asks.
C1_OnlyAuthorModifies ==
    [][ /\ ( /\ response'.op \in {"partial_update", "update", "destroy"}
             /\ response'.pk \in DOMAIN recipes
             /\ recipes[response'.pk].author # response'.user )
           => /\ response'.status \in {401, 403}
              /\ UNCHANGED <<RecipeState, favorites, shopping_cart>>
        /\ ( response'.op = "retrieve" /\ response'.pk \in DOMAIN recipes )
           => response'.status = 200 ]_vars

\* C1: another user's PATCH was refused.
C1_Witness ==
    /\ response.op = "partial_update"
    /\ response.status = 403
    /\ response.pk \in DOMAIN recipes
    /\ response.user \in users
    /\ recipes[response.pk].author # response.user

\* C2 (as claimed): a POST to the recipe collection by an anonymous client
\* is answered with an authentication or permission error (401 or 403).
C2_AnonymousCreateRejected ==
    ( response.op = "create" /\ response.user = AnonymousUser )
        => response.status \in {401, 403}

\* the bodies C3 calls valid: every field, at least one tag, at least one
\* ingredient, distinct existing ingredient ids, amounts > 0
ValidCreateData ==
    {d \in RequestData :
        /\ DOMAIN d = WriteFields
        /\ d.tags # {} /\ d.tags \subseteq Tags
        /\ d.ingredients # <<>>
        /\ \A n \in 1..Len(d.ingredients) :
              /\ d.ingredients[n].id \in Ingredients
              /\ d.ingredients[n].amount > 0
              /\ \A m \in 1..Len(d.ingredients) :
                    m # n => d.ingredients[m].id # d.ingredients[n].id}

\* C3 (as claimed): a POST to the recipe collection by an authenticated
\* user with valid data is answered 201 and creates exactly one Recipe,
\* whose author is the requester, whose tags are the tags sent and whose
\* RecipeIngredient rows are the (ingredient, amount) pairs sent.
C3_UsersAuthorRecipes ==
    [][ \A u \in 1..NumUsers, d \in ValidCreateData :
            create(u, d) =>
                /\ response'.status = 201
                /\ \E r \in DOMAIN recipes' \ DOMAIN recipes :
                      /\ DOMAIN recipes' = DOMAIN recipes \cup {r}
                      /\ recipes'[r].author = u
                      /\ recipe_tags'[r] = d.tags
                      /\ \A i \in IngredientIds :
                            recipe_ingredients'[<<r, i>>] = AmountsOf(d.ingredients, i)
      ]_vars

\* C4: in every reachable state there is at most one Favorite row per
\* (user, recipe), one ShoppingCart row per (user, recipe), one Subscription
\* row per (user, author) and one RecipeIngredient row per (recipe, ingredient).
C4_UniqueJoinRows ==
    /\ \A k \in DOMAIN favorites : favorites[k] <= 1
    /\ \A k \in DOMAIN shopping_cart : shopping_cart[k] <= 1
    /\ \A k \in DOMAIN subscriptions : subscriptions[k] <= 1
    /\ \A k \in DOMAIN recipe_ingredients : Len(recipe_ingredients[k]) <= 1

\* C4: a second insert of a pair that is a row by now was refused.
C4_Witness ==
    /\ response.data = "IntegrityError"
    /\ response.op = "favorite"
    /\ favorites[<<response.user, response.pk>>] = 1

\* C5: a POST favorite by an authenticated user answers 404 and changes
\* nothing when the recipe does not exist; answers 201 and adds exactly the
\* pair (user, recipe) when the pair is no favourite; answers 400 'Recipe
\* already in favourites.' and changes nothing when it is one.
C5_AddFavorite ==
    [][ ( response'.op = "favorite" /\ response'.user \in users ) =>
            LET k == <<response'.user, response'.pk>>
            IN  IF response'.pk \notin DOMAIN recipes THEN
                    /\ response'.status = 404
                    /\ favorites' = favorites
                ELSE IF favorites[k] = 0 THEN
                    /\ response'.status = 201
                    /\ favorites' = [favorites EXCEPT ![k] = 1]
                ELSE
                    /\ response'.status = 400
                    /\ response'.data = "Recipe already in favourites."
                    /\ favorites' = favorites
      ]_vars

\* C5: a duplicate favourite was refused while another pair is a favourite too.
C5_Witness ==
    /\ response.op = "favorite"
    /\ response.status = 400
    /\ favorites[<<response.user, response.pk>>] = 1
    /\ \E k \in DOMAIN favorites : k # <<response.user, response.pk>> /\ favorites[k] = 1

\* C6: a DELETE favorite by an authenticated user on an existing recipe
\* answers 204 and removes exactly the pair (user, recipe), touching no
\* other favourite, no cart row and no recipe, when the pair is a favourite,
\* and answers 400 'Recipe not in favourites.' with the state unchanged
\* when it is not; a remove that follows the add of the same pair gives
\* back the favourites there were before the add.
C6_RemoveFavorite ==
    [][ ( /\ response'.op = "delete_favorite"
          /\ response'.user \in users
          /\ response'.pk \in DOMAIN recipes ) =>
            LET k == <<response'.user, response'.pk>>
            IN  IF favorites[k] > 0 THEN
                    /\ response'.status = 204
                    /\ favorites' = [favorites EXCEPT ![k] = 0]
                    /\ UNCHANGED <<shopping_cart, RecipeState>>
                    /\ ( /\ response.op = "favorite"
                         /\ response.status = 201
                         /\ <<response.user, response.pk>> = k )
                       => favorites' = prev_favorites
                ELSE
                    /\ response'.status = 400
                    /\ response'.data = "Recipe not in favourites."
                    /\ UNCHANGED <<favorites, shopping_cart, RecipeState>>
      ]_vars

\* C6: a favourite was removed while other favourites and cart rows stay.
C6_Witness ==
    /\ response.op = "delete_favorite"
    /\ response.status = 204
    /\ favorites[<<response.user, response.pk>>] = 0
    /\ prev_favorites[<<response.user, response.pk>>] = 1
    /\ \E k \in DOMAIN favorites : k[1] = response.user /\ favorites[k] = 1
    /\ \E k \in DOMAIN shopping_cart : shopping_cart[k] = 1

\* C7: a recipe is in a user's cart exactly when the last cart request of
\* that user on that recipe that was answered 201 or 204 was a POST; a POST
\* for a recipe in the cart and a DELETE for a recipe not in the cart are
\* answered 400 and leave the cart unchanged.
C7_CartFollowsLastRequest ==
    /\ [](\A u \in users, r \in DOMAIN recipes :
            (shopping_cart[<<u, r>>] > 0) <=> (last_cart[<<u, r>>] = "POST"))
    /\ [][ ( /\ response'.op \in {"shopping_cart", "delete_shopping_cart"}
             /\ response'.user \in users
             /\ response'.pk \in DOMAIN recipes
             /\ (response'.op = "shopping_cart")
                    <=> (shopping_cart[<<response'.user, response'.pk>>] > 0) )
           => /\ response'.status = 400
              /\ shopping_cart' = shopping_cart ]_vars

\* C7: a recipe was put in the cart, taken out and put in again, and then
\* a POST for it was refused.
C7_Witness ==
    /\ response.op = "shopping_cart"
    /\ response.status = 400
    /\ last_cart[<<response.user, response.pk>>] = "POST"
    /\ \E k \in DOMAIN last_cart : last_cart[k] = "DELETE" /\ shopping_cart[k] = 0

\* C8: the sum of the amounts of the RecipeIngredient rows under the keys S
RECURSIVE C8_Sum(_)
C8_Sum(S) ==
    IF S = {} THEN 0
    ELSE LET k == CHOOSE x \in S : TRUE
         IN  (IF recipe_ingredients[k] = <<>> THEN 0 ELSE recipe_ingredients[k][1])
             + C8_Sum(S \ {k})

\* C8: the file answered to a download has exactly one line per (name,
\* unit) of an ingredient of a recipe of the requester's cart, the amount
\* of a line is the sum of the amounts of that ingredient over the recipes
\* of the requester's cart, and the lines are ordered by name.
C8_ShoppingListAggregates ==
    ( response.op = "download_shopping_cart" /\ response.status = 200 ) =>
        LET u == response.user
            content == response.data
            cart == {r \in RecipeIds : shopping_cart[<<u, r>>] > 0}
            used == {i \in IngredientIds :
                        \E r \in cart : recipe_ingredients[<<r, i>>] # <<>>}
            groups == {<<IngredientName(i), IngredientUnit(i)>> : i \in used}
        IN  /\ cart # {}
            /\ Len(content) = Cardinality(groups)
            /\ {<<content[n][1], content[n][2]>> : n \in 1..Len(content)} = groups
            /\ \A n \in 1..Len(content) :
                  content[n][3] =
                      C8_Sum({k \in cart \X used :
                                 /\ IngredientName(k[2]) = content[n][1]
                                 /\ IngredientUnit(k[2]) = content[n][2]})
            /\ \A n, m \in 1..Len(content) :
                  n < m => content[n][1] <= content[m][1]

\* C8: a list was downloaded whose lines add amounts of two recipes.
C8_Witness ==
    /\ response.op = "download_shopping_cart"
    /\ response.status = 200
    /\ Cardinality({r \in RecipeIds : shopping_cart[<<response.user, r>>] > 0}) >= 2
    /\ Len(response.data) >= 2
    /\ \E n \in 1..Len(response.data) : response.data[n][3] >= 3

\* C9: a download by a user with no ShoppingCart row is answered 400
\* 'Shopping cart is empty.', whatever the other users' carts hold, and no
\* download changes a cart.
C9_EmptyCartDownload ==
    [][ response'.op = "download_shopping_cart" =>
            /\ shopping_cart' = shopping_cart
            /\ ( /\ response'.user \in users
                 /\ \A r \in RecipeIds : shopping_cart[<<response'.user, r>>] = 0 )
               => /\ response'.status = 400
                  /\ response'.data = "Shopping cart is empty."
      ]_vars

\* C9: a download was refused for an empty cart while another user's cart
\* holds a recipe.
C9_Witness ==
    /\ response.op = "download_shopping_cart"
    /\ response.status = 400
    /\ response.user \in users
    /\ \E k \in DOMAIN shopping_cart : k[1] # response.user /\ shopping_cart[k] > 0

\* C10: no Subscription row has its user as its author, and a subscribe
\* request of a user for that user is answered 400 'Cannot subscribe to
\* yourself.' and creates no row.
C10_NoSelfSubscription ==
    /\ [](\A u \in UserIds : subscriptions[<<u, u>>] = 0)
    /\ [][ ( /\ response'.op = "subscribe"
             /\ response'.user \in users
             /\ response'.pk = response'.user )
           => /\ response'.status = 400
              /\ response'.data = "Cannot subscribe to yourself."
              /\ subscriptions' = subscriptions ]_vars

\* C10: a user asked to subscribe to themself, with subscriptions around.
C10_Witness ==
    /\ response.op = "subscribe"
    /\ response.user \in users
    /\ response.pk = response.user
    /\ \E k \in DOMAIN subscriptions : subscriptions[k] = 1

C12_Unsubscribe ==
    [][ ( response'.op = "unsubscribe" /\ response'.user \in users ) =>
            LET u == response'.user
                a == response'.pk
            IN  IF a \notin users THEN
                    /\ response'.status = 404
                    /\ subscriptions' = subscriptions
                ELSE IF subscriptions[<<u, a>>] > 0 THEN
                    /\ response'.status = 204
                    /\ subscriptions' = [subscriptions EXCEPT ![<<u, a>>] = 0]
                ELSE
                    /\ response'.status = 400
                    /\ response'.data = "Not subscribed."
                    /\ subscriptions' = subscriptions
      ]_vars

\* C12: u unsubscribed from a while a stays subscribed to u.
C12_Witness ==
    /\ response.op = "unsubscribe"
    /\ response.status = 204
    /\ subscriptions[<<response.user, response.pk>>] = 0
    /\ subscriptions[<<response.pk, response.user>>] = 1

\* C13: the bodies the claim calls invalid: an empty ingredient list, an
\* ingredient id named twice, an amount <= 0, an empty tag list
C13_Invalid ==
    {d \in RequestData :
        \/ /\ "ingredients" \in DOMAIN d
           /\ \/ d.ingredients = <<>>
              \/ \E n, m \in 1..Len(d.ingredients) :
                    n # m /\ d.ingredients[n].id = d.ingredients[m].id
              \/ \E n \in 1..Len(d.ingredients) : d.ingredients[n].amount <= 0
        \/ "tags" \in DOMAIN d /\ d.tags = {}}

\* C13 (as claimed): a recipe create, and a recipe update (PATCH or PUT) by
\* the author, whose body has an empty ingredient list, an ingredient id
\* twice, an amount <= 0 or an empty tag list is answered 400 and leaves
\* every recipe, its tags and its ingredient rows unchanged; every recipe
\* has at least one tag and at least one ingredient, each amount positive.
C13_WriteValidation ==
    [][ /\ response'.op = "create" =>
                \A u \in Requesters, d \in C13_Invalid :
                    create(u, d) =>
                        response'.status = 400 /\ UNCHANGED RecipeState
        /\ response'.op \in {"partial_update", "update"} =>
                \A pk \in DOMAIN recipes, d \in C13_Invalid :
                    ( \/ partial_update(recipes[pk].author, pk, d)
                      \/ update(recipes[pk].author, pk, d) ) =>
                        response'.status = 400 /\ UNCHANGED RecipeState
        /\ \A r \in DOMAIN recipes' :
                /\ recipe_tags'[r] # {}
                /\ \E i \in IngredientIds : recipe_ingredients'[<<r, i>>] # <<>>
                /\ \A i \in IngredientIds :
                      \A n \in 1..Len(recipe_ingredients'[<<r, i>>]) :
                          recipe_ingredients'[<<r, i>>][n] > 0
      ]_vars

\* C14 (as claimed): a list request with limit=n is answered with a page
\* of at most n items, and one without 'limit' with a page of at most six.
C14_LimitHonoured ==
    ( response.op = "list" /\ response.status = 200 ) =>
        Len(response.data.results) <=
            (IF "limit" \in DOMAIN request THEN request.limit ELSE 6)

\* C17: the recipes that match the filters by tag and by author of the request
C17_Others ==
    {r \in DOMAIN recipes :
        /\ ("tags" \in DOMAIN request /\ request.tags # {})
                => recipe_tags[r] \cap request.tags # {}
        /\ "author" \in DOMAIN request => recipes[r].author = request.author}

\* C17: what the flag `param` asks of recipe r, `table` holding the rows
\* the flag is about
C17_Asked(r, param, table) ==
    \/ param \notin DOMAIN request
    \/ response.user \notin users
    \/ (table[<<response.user, r>>] > 0) <=> (request[param] \in {"1", "2"})

\* C17: a list request of an authenticated user with is_favorited set to a
\* non-zero integer is answered with exactly the recipes, among those that
\* match the other filters, the user has as favourites, and with 0 or a
\* value that is no integer with exactly those the user has not;
\* is_in_shopping_cart does the same with the user's cart; for an anonymous
\* requester the two parameters filter nothing out.
C17_FlagFilters ==
    ( /\ response.op = "list"
      /\ response.status = 200
      /\ response.data.count = Len(response.data.results) ) =>
        LET results == response.data.results
            expected == {r \in C17_Others :
                            /\ C17_Asked(r, "is_favorited", favorites)
                            /\ C17_Asked(r, "is_in_shopping_cart", shopping_cart)}
        IN  /\ {results[n] : n \in 1..Len(results)} = expected
            /\ Len(results) = Cardinality(expected)

\* C17: a user who has a favourite asked with a value that is no integer
\* and got a recipe, while another recipe was filtered out.
C17_Witness ==
    /\ response.op = "list"
    /\ response.status = 200
    /\ response.user \in users
    /\ "is_favorited" \in DOMAIN request
    /\ request.is_favorited = "x"
    /\ Len(response.data.results) = 1
    /\ \E r \in DOMAIN recipes : favorites[<<response.user, r>>] = 1

\* C18: a list request with tag slugs, alone or with an author id, is
\* answered with every recipe that carries at least one of the slugs (and
\* is of that author) exactly once, and with no other recipe.
C18_TagsOrSemantics ==
    ( /\ response.op = "list"
      /\ response.status = 200
      /\ DOMAIN request \subseteq {"tags", "author"}
      /\ "tags" \in DOMAIN request
      /\ request.tags # {} ) =>
        LET results == response.data.results
        IN  \A r \in RecipeIds :
                Cardinality({n \in 1..Len(results) : results[n] = r}) =
                    IF /\ r \in DOMAIN recipes
                       /\ recipe_tags[r] \cap request.tags # {}
                       /\ "author" \in DOMAIN request
                              => recipes[r].author = request.author
                    THEN 1 ELSE 0

\* C18: slugs were asked for together with an author, and a recipe that
\* carries two of them was returned while another recipe was not.
C18_Witness ==
    /\ response.op = "list"
    /\ response.status = 200
    /\ DOMAIN request = {"tags", "author"}
    /\ Len(response.data.results) = 1
    /\ Cardinality(recipe_tags[response.data.results[1]] \cap request.tags) >= 2
    /\ Cardinality(DOMAIN recipes) >= 2

\* C15: in every state every recipe's author is a user (the recipes of a
\* deleted user are deleted with the user), every Favorite, ShoppingCart
\* and RecipeIngredient row refers to a recipe there is, and every
\* Favorite, ShoppingCart and Subscription row refers to users there are.
C15_ReferentialIntegrity ==
    /\ \A r \in DOMAIN recipes : recipes[r].author \in users
    /\ \A k \in DOMAIN favorites :
            favorites[k] > 0 => k[1] \in users /\ k[2] \in DOMAIN recipes
    /\ \A k \in DOMAIN shopping_cart :
            shopping_cart[k] > 0 => k[1] \in users /\ k[2] \in DOMAIN recipes
    /\ \A k \in DOMAIN recipe_ingredients :
            recipe_ingredients[k] # <<>> => k[1] \in DOMAIN recipes
    /\ \A k \in DOMAIN subscriptions :
            subscriptions[k] > 0 => k[1] \in users /\ k[2] \in users

\* C15: a user was deleted whose recipe another user had put in the cart,
\* and that other user's rows on other recipes are still there.
C15_Witness ==
    /\ response.op = "user_delete"
    /\ response.user \notin users
    /\ \E k \in DOMAIN last_cart :
            /\ last_cart[k] = "POST"
            /\ k[1] \in users
            /\ k[2] \notin DOMAIN recipes
    /\ \E k \in DOMAIN shopping_cart : shopping_cart[k] = 1

C19_ConcurrentAddsConflict ==
    [][ LET r == response'
            k == <<r.user, r.pk>>
        IN  /\ ( r.op = "favorite" /\ r.pk \in DOMAIN recipes )
                    => r.status \in {201, 400} /\ favorites'[k] = 1
            /\ ( r.op = "shopping_cart" /\ r.pk \in DOMAIN recipes )
                    => r.status \in {201, 400} /\ shopping_cart'[k] = 1
            /\ ( r.op = "subscribe" /\ r.pk \in users \ {r.user} )
                    => r.status \in {201, 400} /\ subscriptions'[k] = 1
      ]_vars

=============================================================================
